---- MODULE Spec2Model ----
(***************************************************************************)
(* Formal model of the TikTok search tool's discovery-and-accumulation     *)
(* engine: the URL identity resolver (src/src/utils/utils.py), the Excel   *)
(* accumulation store (src/src/managers/excel_manager.py), the enhanced    *)
(* searcher's master workbook (src/downloader/tiktok_search_enhanced.py)   *)
(* and the scroll loops (src/src/channel_search/channel_extractor.py).     *)
(*                                                                         *)
(* A Python str is modelled as a sequence of atoms.  An atom is an         *)
(* indivisible run of characters; "/" and " " are atoms on their own, so   *)
(* that str.strip(), str.split('/') and the regular expressions of the     *)
(* source are computed on the string instead of being assumed.             *)
(***************************************************************************)
EXTENDS Integers, Sequences, FiniteSets, TLC

VARIABLES
    file,            \* the file system: filename -> NoFile or a saved workbook
    existing_links,  \* ExcelManager.existing_links
    last,            \* summary of the last ExcelManager call: operation, target, result
    passed,          \* history: filename -> keys of all items passed to create_and_save
    master,          \* TikTokSearcherEnhanced.excel_filepath: NoFile or the saved workbook
    existing_video_ids,  \* TikTokSearcherEnhanced.existing_video_ids
    enh,             \* TikTokSearcherEnhanced: configuration and locals of its scroll loop
    thr,             \* export threads: position and locals of each create_and_save
    channel,         \* ChannelExtractor._extract_videos_by_scrolling: its locals
    found,           \* history: the new items of the snapshots, in discovery order,
                     \* how many of them each channel scroll revealed, how many
                     \* page reads of the channel call raised, how many
                     \* items its snapshots showed again, and the ids of the
                     \* lists that search_videos returned
    basic,           \* TikTokSearcher._scroll_to_load_videos (basic downloader): its locals
    returned,        \* what the last discovery call returned; failed is history
    page_source,     \* the page text last handed to find_tiktok_links
    unique_links,    \* what find_tiktok_links returned for it
    resolved,        \* the URL last handed to extract_video_info, and its result
    browser,         \* the Chrome driver of the BrowserManager of search_tiktok
    gui,             \* MainWindow: is_searching, its worker threads, the resets
                     \* scheduled with root.after, and the outcome of the last request
    login            \* TikTokLoginManager: position of _perform_login, its result,
                     \* the answers typed so far, session_data and the session file

excelVars  == <<file, existing_links, last, passed>>
enhVars    == <<master, existing_video_ids, enh>>
concVars   == <<thr>>
scrollVars == <<channel, found>>
loopVars   == <<basic, returned>>
utilVars   == <<page_source, unique_links, resolved>>
appVars    == <<browser, gui, login>>

vars == <<file, existing_links, last, passed, master, existing_video_ids, enh,
          thr, channel, found, basic, returned, page_source, unique_links, resolved,
          browser, gui, login>>

-----------------------------------------------------------------------------
(* Bounds *)

MaxBatch == 2        \* longest video list handed to one create_and_save call
MaxMasterRows == 3   \* the master workbook is explored up to this many data rows
MaxSnapshot == 2     \* most links one page snapshot of a scroll loop holds
MaxTarget == 2       \* largest configured maximum (max_videos, min_links, max_links)
MaxFragments == 3    \* most fragments a page text is made of
MaxWorkers == 2      \* search worker threads the exploration lets exist at once
MaxAnswers == 3      \* answers typed at the login prompt of one _perform_login

\* constants of the program
max_scrolls == 50          \* ChannelExtractor.max_scrolls
NoNewVideosLimit == 3      \* scrolls without a new video that stop the channel loop
max_scroll_attempts == 20  \* scrolls at an unchanged height that stop the search loop
max_attempts == 10         \* the same limit in the basic downloader
LoggedOutLimit == 6        \* most results of a search after a failed login

-----------------------------------------------------------------------------
(* Strings *)

EmptyStr == << >>

RECURSIVE lstrip(_)
lstrip(s) == IF s # << >> /\ Head(s) = " " THEN lstrip(Tail(s)) ELSE s

RECURSIVE rstrip(_)
rstrip(s) ==
    IF s # << >> /\ s[Len(s)] = " " THEN rstrip(SubSeq(s, 1, Len(s) - 1)) ELSE s

\* str.strip()
strip(s) == rstrip(lstrip(s))

\* str.split('/'): the segments between the "/" atoms
RECURSIVE split(_)
split(s) ==
    LET idx == {i \in 1..Len(s) : s[i] = "/"} IN
    IF idx = {} THEN <<s>>
    ELSE LET i == CHOOSE j \in idx : \A k \in idx : j <= k IN
         <<SubSeq(s, 1, i - 1)>> \o split(SubSeq(s, i + 1, Len(s)))

\* x in s, for a substring x given as a sequence of atoms
Contains(s, x) ==
    \E i \in 1..(Len(s) - Len(x) + 1) : SubSeq(s, i, i + Len(x) - 1) = x

NameAtoms  == {"alice", "bob"}
DigitAtoms == {"42", "7"}

\* the numbers of the videos of a channel feed, one per possible scroll
FeedDigits == {ToString(n) : n \in 1..(max_scrolls + MaxTarget + 1)}

\* owners with a dot and a dash, codes of short links
DottedAtoms == {"a.b-c"}
CodeAtoms   == {"abc", "xyz"}

\* [A-Za-z0-9]+ matches a run of letters and digits
IsAlnum(a)  == a \in NameAtoms \cup DigitAtoms \cup FeedDigits \cup CodeAtoms \cup {"video", "t"}

\* [\w.-]+ matches a run of word characters, dots and dashes
IsWord(a)   == IsAlnum(a) \/ a \in DottedAtoms
IsDigits(a) == a \in DigitAtoms \cup FeedDigits

\* hosts whose text ends in "tiktok.com"
TiktokHosts == {"www.tiktok.com", "vm.tiktok.com"}

-----------------------------------------------------------------------------
(* Identity resolver *)

\* positions where r'https://www\.tiktok\.com/@([\w.-]+)/video/(\d+)' matches
CanonicalMatches(url) ==
    {i \in 1..(Len(url) - 10) :
        /\ SubSeq(url, i, i + 5) = <<"https:", "/", "/", "www.tiktok.com", "/", "@">>
        /\ IsWord(url[i + 6])
        /\ SubSeq(url, i + 7, i + 9) = <<"/", "video", "/">>
        /\ IsDigits(url[i + 10])}

\* extract_video_info with the two groups exchanged
extract_video_info_swapped(url) ==
    LET m == CanonicalMatches(url) IN
    IF m # {}
    THEN LET i == CHOOSE j \in m : \A k \in m : j <= k IN
         [username |-> <<url[i + 10]>>, video_id |-> <<url[i + 6]>>]
    ELSE IF \/ Contains(url, <<"vm.tiktok.com">>)
            \/ \E h \in TiktokHosts : Contains(url, <<h, "/", "t", "/">>)
    THEN LET parts == split(url) IN
         [username |-> <<"short_url">>, video_id |-> parts[Len(parts)]]
    ELSE [username |-> <<"unknown">>, video_id |-> <<"unknown">>]

\* extract_video_info(url) -> (username, video_id)
extract_video_info(url) ==
    LET m == CanonicalMatches(url) IN
    IF m # {}
    THEN LET i == CHOOSE j \in m : \A k \in m : j <= k IN
         [username |-> <<url[i + 6]>>, video_id |-> <<url[i + 10]>>]
    ELSE IF \/ Contains(url, <<"vm.tiktok.com">>)
            \/ \E h \in TiktokHosts : Contains(url, <<h, "/", "t", "/">>)
    THEN LET parts == split(url) IN
         [username |-> <<"short_url">>, video_id |-> parts[Len(parts)]]
    ELSE [username |-> <<"unknown">>, video_id |-> <<"unknown">>]

\* the video dictionary built for one link by the search code
MakeVideo(url, query, date) ==
    LET info == extract_video_info(url) IN
    [url          |-> url,
     username     |-> info.username,
     video_id     |-> info.video_id,
     title        |-> <<"Video by @">> \o info.username,
     search_query |-> query,
     added_date   |-> date]

-----------------------------------------------------------------------------
(* Inputs of the accumulation store *)

UrlAlice   == <<"https:", "/", "/", "www.tiktok.com", "/", "@", "alice", "/", "video", "/", "42">>
UrlBob     == <<"https:", "/", "/", "www.tiktok.com", "/", "@", "bob", "/", "video", "/", "7">>
UrlPadded  == <<" ">> \o UrlAlice
UrlShort1  == <<"https:", "/", "/", "vm.tiktok.com", "/", "abc", "/">>
UrlShort2  == <<"https:", "/", "/", "www.tiktok.com", "/", "t", "/", "xyz", "/">>

Files      == {"f1", "f2"}

\* the video lists of the two-file specification: one timestamp, URLs with
\* surrounding blanks and without a URL
StoreUrls   == {UrlAlice, UrlPadded, UrlShort1, EmptyStr}
StoreVideos == {MakeVideo(u, "cats", "t1") : u \in StoreUrls}

\* the video lists of the one-file specification: two timestamps, two short links
RowUrls     == {UrlAlice, UrlShort1, UrlShort2}
RowVideos   == {MakeVideo(u, "cats", d) : u \in RowUrls, d \in {"t1", "t2"}}

SeqsUpTo(S, n) == UNION {[1..k -> S] : k \in 0..n}

StoreBatches == SeqsUpTo(StoreVideos, MaxBatch)
RowBatches   == SeqsUpTo(RowVideos, MaxBatch)

-----------------------------------------------------------------------------
(* Workbooks *)

\* os.path.exists(filename) is false
NoFile  == [absent |-> TRUE]
Headers == <<"URL", "Username", "Video ID", "Title", "Search Query", "Added Date">>

\* openpyxl.Workbook(): one empty sheet
create_workbook == [header |-> << >>, rows |-> << >>]

\* worksheet.max_row: row 1 is the header row, data row r is rows[r - 1]
max_row(ws) == 1 + Len(ws.rows)

\* ExcelManager.add_headers
add_headers(ws) ==
    IF ws.header = << >> THEN [ws EXCEPT !.header = Headers] ELSE ws

\* dict.get(key, default)
get(video, key, default) == IF key \in DOMAIN video THEN video[key] ELSE default

\* one worksheet row as written by add_data: the six mapped columns
RowOf(video) ==
    [url |-> video.url, username |-> video.username, video_id |-> video.video_id,
     title |-> video.title, search_query |-> get(video, "search_query", ""),
     added_date |-> get(video, "added_date", "")]

\* add_data writing from row 2 on whatever the sheet holds
add_data_from_row2(ws, data) ==
    [ws EXCEPT !.rows = [i \in 1..Len(data) |-> RowOf(data[i])]
                            \o SubSeq(ws.rows, Len(data) + 1, Len(ws.rows))]

\* ExcelManager.add_data with start_row = max_row + 1
add_data(ws, data) ==
    [ws EXCEPT !.rows = ws.rows \o [i \in 1..Len(data) |-> RowOf(data[i])]]

\* ExcelManager._extract_existing_links: the stripped non-empty URLs of column 1
extract_existing_links(ws) ==
    {strip(ws.rows[r - 1].url) : r \in 2..max_row(ws)} \ {EmptyStr}

\* filter_duplicate_videos without the update of existing_links in the loop
RECURSIVE filter_duplicate_videos_nomark(_, _)
filter_duplicate_videos_nomark(links, videos) ==
    IF videos = << >>
    THEN [new |-> << >>, dup |-> 0, links |-> links]
    ELSE LET video     == Head(videos)
             video_url == strip(video.url)
             isNew     == video_url # EmptyStr /\ video_url \notin links
             rest      == filter_duplicate_videos_nomark(links, Tail(videos))
         IN  [new   |-> IF isNew THEN <<video>> \o rest.new ELSE rest.new,
              dup   |-> IF isNew THEN rest.dup ELSE rest.dup + 1,
              links |-> rest.links]

\* ExcelManager.filter_duplicate_videos, started with existing_links = links
RECURSIVE filter_duplicate_videos(_, _)
filter_duplicate_videos(links, videos) ==
    IF videos = << >>
    THEN [new |-> << >>, dup |-> 0, links |-> links]
    ELSE LET video     == Head(videos)
             video_url == strip(video.url)
             isNew     == video_url # EmptyStr /\ video_url \notin links
             rest      == filter_duplicate_videos(
                              IF isNew THEN links \cup {video_url} ELSE links,
                              Tail(videos))
         IN  [new   |-> IF isNew THEN <<video>> \o rest.new ELSE rest.new,
              dup   |-> IF isNew THEN rest.dup ELSE rest.dup + 1,
              links |-> rest.links]

\* the keys (stripped non-empty URLs) of a video list
KeysOf(videos) == {strip(videos[i].url) : i \in 1..Len(videos)} \ {EmptyStr}

\* the URLs readable from file f of the file system fs
KeysIn(fs, f) == IF fs[f] = NoFile THEN {} ELSE extract_existing_links(fs[f])

\* the data rows of a workbook file
RowsOf(wb) == IF wb = NoFile THEN << >> ELSE wb.rows

RowsIn(fs, f) == RowsOf(fs[f])

\* a file on which openpyxl.load_workbook raises: its rows are on the disk
Damaged(wb) == [header |-> wb.header, rows |-> wb.rows, damaged |-> TRUE]
IsDamaged(wb) == "damaged" \in DOMAIN wb

\* ExcelManager.load_existing_workbook: existing_links is refreshed only when
\* the file exists and loads; when it is absent or load_workbook raises, the
\* result is False and the set of the manager is left as it is
load_existing_workbook(links, fs, f) ==
    IF fs[f] # NoFile /\ ~IsDamaged(fs[f])
    THEN [file_exists |-> TRUE, ws |-> fs[f], links |-> extract_existing_links(fs[f])]
    ELSE [file_exists |-> FALSE, ws |-> create_workbook, links |-> links]

\* ExcelManager.create_and_save(videos, filename) as a function of the
\* manager's existing_links, the file system fs and the outcome saveOk of
\* workbook.save in save_workbook
create_and_save(links, fs, f, videos, saveOk) ==
    IF videos = << >>
    THEN [ok |-> FALSE, fs |-> fs, links |-> links, file_exists |-> FALSE,
          known |-> links, new |-> << >>, dup |-> 0]
    ELSE LET ld  == load_existing_workbook(links, fs, f)
             ws0 == IF ld.file_exists THEN ld.ws ELSE add_headers(ld.ws)
             res == filter_duplicate_videos(ld.links, videos)
             ws1 == add_data(ws0, res.new)
         IN  [ok          |-> (res.new = << >> \/ saveOk),
              fs          |-> IF res.new # << >> /\ saveOk
                              THEN [fs EXCEPT ![f] = ws1] ELSE fs,
              links       |-> res.links,
              file_exists |-> ld.file_exists,
              known       |-> ld.links,
              new         |-> res.new,
              dup         |-> res.dup]

-----------------------------------------------------------------------------
(* ExcelManager operations *)

NoCall(op) ==
    [op |-> op, f |-> "none", ok |-> FALSE, file_exists |-> FALSE,
     written |-> 0, dup |-> 0]

\* ExcelManager.__init__
NewManager ==
    /\ existing_links' = {}
    /\ last' = NoCall("new")
    /\ UNCHANGED <<appVars, file, passed, enhVars, concVars, scrollVars, loopVars, utilVars>>

\* a call of ExcelManager.create_and_save
CreateAndSave(f, videos, saveOk) ==
    LET r == create_and_save(existing_links, file, f, videos, saveOk) IN
    /\ existing_links' = r.links
    /\ file' = r.fs
    /\ passed' = [passed EXCEPT ![f] = @ \cup KeysOf(videos)]
    /\ last' = [op |-> "create_and_save", f |-> f, ok |-> r.ok,
                file_exists |-> r.file_exists, written |-> Len(r.new),
                dup |-> r.dup]
    /\ UNCHANGED <<appVars, enhVars, concVars, scrollVars, loopVars, utilVars>>

\* the file f, which holds rows, becomes unreadable
Damage(f) ==
    /\ file[f] # NoFile /\ ~IsDamaged(file[f])
    /\ file' = [file EXCEPT ![f] = Damaged(@)]
    /\ UNCHANGED <<appVars, existing_links, last, passed, enhVars, concVars,
                   scrollVars, loopVars, utilVars>>

InitExcel ==
    /\ file = [f \in Files |-> NoFile]
    /\ existing_links = {}
    /\ last = NoCall("init")
    /\ passed = [f \in Files |-> {}]

-----------------------------------------------------------------------------
(* TikTokSearcherEnhanced: the master workbook *)

UrlAliceQ == UrlAlice \o <<"?", "lang=en">>

\* href.split('/video/')[-1]: the text after the last "/video/"
AfterVideo(href) ==
    LET idx == {i \in 1..(Len(href) - 2) :
                   SubSeq(href, i, i + 2) = <<"/", "video", "/">>} IN
    IF idx = {} THEN href
    ELSE LET i == CHOOSE j \in idx : \A k \in idx : j >= k IN
         SubSeq(href, i + 3, Len(href))

\* s.split('?')[0]: the text before the first "?"
BeforeQuery(s) ==
    LET idx == {i \in 1..Len(s) : s[i] = "?"} IN
    IF idx = {} THEN s
    ELSE SubSeq(s, 1, (CHOOSE j \in idx : \A k \in idx : j <= k) - 1)

\* the video dictionary of TikTokSearcherEnhanced._extract_video_info
EnhVideo(href, subject, stamp) ==
    [video_id |-> BeforeQuery(AfterVideo(href)), url |-> href,
     title |-> <<"Unknown">>, username |-> <<"Unknown">>,
     subject |-> subject, search_timestamp |-> stamp, date_added |-> stamp]

EnhHrefs   == {UrlAlice, UrlAliceQ, UrlBob}
EnhVideos  == {EnhVideo(h, "cats", "t1") : h \in EnhHrefs}
EnhBatches == SeqsUpTo(EnhVideos, MaxBatch)

EnhHeaders ==
    <<"Video ID", "URL", "Title", "Username", "Subject", "Search Timestamp", "Date Added">>

\* the ids in column 1 of the master workbook
IdsIn(wb) == {RowsOf(wb)[i].video_id : i \in 1..Len(RowsOf(wb))} \ {EmptyStr}

\* TikTokSearcherEnhanced.update_excel_file(videos): every video of the list
\* is written from next_row on; saveOk is the outcome of wb.save
update_excel_file(wb, videos, saveOk) ==
    IF videos = << >> THEN [ok |-> FALSE, wb |-> wb]
    ELSE LET ws0 == IF wb # NoFile THEN wb
                    ELSE [header |-> EnhHeaders, rows |-> << >>]
             \* next_row = max_row + 1 if max_row > 1 else 2
             next_row == IF max_row(ws0) > 1 THEN max_row(ws0) + 1 ELSE 2
             ws1 == [ws0 EXCEPT !.rows = SubSeq(ws0.rows, 1, next_row - 2) \o videos]
         IN  [ok |-> saveOk, wb |-> IF saveOk THEN ws1 ELSE wb]

\* the searcher before its scroll loop runs
EnhReady(min_links, max_links) ==
    [pc |-> "ready", min_links |-> min_links, max_links |-> max_links,
     videos |-> << >>, scroll_attempts |-> 0, last_height |-> "h1"]

\* TikTokSearcherEnhanced.__init__: the configuration is stored and
\* _load_existing_video_ids fills the empty set from the master workbook
NewSearcher(min_links, max_links) ==
    /\ existing_video_ids' = IdsIn(master)
    /\ enh' = EnhReady(min_links, max_links)
    /\ found' = [found EXCEPT !.enhanced = << >>, !.known = IdsIn(master),
                              !.handed = {}]
    /\ UNCHANGED <<appVars, master, channel, excelVars, concVars, loopVars, utilVars>>

\* a call of TikTokSearcherEnhanced.update_excel_file
UpdateExcelFile(videos, saveOk) ==
    /\ enh.pc # "none"
    /\ Len(RowsOf(master)) + Len(videos) <= MaxMasterRows
    /\ master' = update_excel_file(master, videos, saveOk).wb
    /\ UNCHANGED <<appVars, existing_video_ids, enh, excelVars, concVars, scrollVars, loopVars, utilVars>>

InitEnh ==
    /\ master = NoFile
    /\ existing_video_ids = {}
    /\ enh = [EnhReady(0, 0) EXCEPT !.pc = "none"]

-----------------------------------------------------------------------------
(* Concurrent exports: MainWindow._perform_export on separate threads *)

Threads == {"t1", "t2"}

ConcVideos  == {MakeVideo(u, "cats", "t1") : u \in {UrlAlice, UrlBob}}
ConcBatches == SeqsUpTo(ConcVideos, MaxBatch) \ {<< >>}

ThreadIdle ==
    [pc |-> "idle", videos |-> << >>, ws |-> create_workbook, links |-> {},
     file_exists |-> FALSE, new_videos |-> << >>]

\* _perform_export -> TikTokSearcher.save_to_excel: a new ExcelManager, then
\* create_and_save(videos, filename) on the file of the query
TStart(t, videos) ==
    /\ thr[t].pc \in {"idle", "done"}
    /\ thr' = [thr EXCEPT ![t] = [ThreadIdle EXCEPT !.pc = "load", !.videos = videos]]
    /\ UNCHANGED <<appVars, excelVars, enhVars, scrollVars, loopVars, utilVars>>

\* load_existing_workbook, or create_workbook and add_headers
TLoad(t) ==
    /\ thr[t].pc = "load"
    /\ LET ld == load_existing_workbook(thr[t].links, file, "f1") IN
       thr' = [thr EXCEPT ![t].pc = "filter",
                          ![t].file_exists = ld.file_exists,
                          ![t].links = ld.links,
                          ![t].ws = IF ld.file_exists THEN ld.ws ELSE add_headers(ld.ws)]
    /\ UNCHANGED <<appVars, excelVars, enhVars, scrollVars, loopVars, utilVars>>

\* filter_duplicate_videos; with no new video the call returns
TFilter(t) ==
    /\ thr[t].pc = "filter"
    /\ LET res == filter_duplicate_videos(thr[t].links, thr[t].videos) IN
       thr' = [thr EXCEPT ![t].pc = IF res.new = << >> THEN "done" ELSE "add",
                          ![t].links = res.links,
                          ![t].new_videos = res.new]
    /\ UNCHANGED <<appVars, excelVars, enhVars, scrollVars, loopVars, utilVars>>

\* add_data on the workbook in memory
TAdd(t) ==
    /\ thr[t].pc = "add"
    /\ thr' = [thr EXCEPT ![t].pc = "save",
                          ![t].ws = add_data(thr[t].ws, thr[t].new_videos)]
    /\ UNCHANGED <<appVars, excelVars, enhVars, scrollVars, loopVars, utilVars>>

\* save_workbook: the workbook in memory replaces the file
TSave(t) ==
    /\ thr[t].pc = "save"
    /\ file' = [file EXCEPT !["f1"] = thr[t].ws]
    /\ thr' = [thr EXCEPT ![t].pc = "done"]
    /\ UNCHANGED <<appVars, existing_links, last, passed, enhVars, scrollVars, loopVars, utilVars>>

InitConc == thr = [t \in Threads |-> ThreadIdle]

-----------------------------------------------------------------------------
(* Scroll loops *)

\* new items of a snapshot in discovery order: items whose key is not in old,
\* each key once (items and keys run in parallel)
RECURSIVE Discovered(_, _, _)
Discovered(items, keys, old) ==
    IF items = << >> THEN << >>
    ELSE IF Head(keys) \in old THEN Discovered(Tail(items), Tail(keys), old)
    ELSE <<Head(items)>> \o Discovered(Tail(items), Tail(keys), old \cup {Head(keys)})

UrlsOf(videos) == [i \in 1..Len(videos) |-> videos[i].url]
IdsOf(videos)  == [i \in 1..Len(videos) |-> videos[i].video_id]
Range(s)       == {s[i] : i \in 1..Len(s)}

(* ChannelExtractor._extract_videos_by_scrolling *)

ChannelLinks == {UrlAlice, UrlBob, UrlShort1}

\* what find_tiktok_links returns for a page: links, each one once
ChannelPages ==
    {s \in SeqsUpTo(ChannelLinks, MaxSnapshot) :
        \A i, j \in 1..Len(s) : s[i] = s[j] => i = j}

\* _extract_videos_from_page: one dictionary per link of the page
extract_videos_from_page(links) ==
    [i \in 1..Len(links) |->
        LET info == extract_video_info(links[i]) IN
        [url |-> links[i], username |-> info.username, video_id |-> info.video_id,
         title |-> <<"Video by @">> \o info.username, extracted_date |-> "t1"]]

\* _filter_new_videos without the filter
filter_new_videos_all(current_videos, existing_videos) == current_videos

\* _filter_new_videos: the current videos whose URL is not collected yet
filter_new_videos(current_videos, existing_videos) ==
    LET existing_urls == Range(UrlsOf(existing_videos))
        IsNew(v) == v.url \notin existing_urls
    IN SelectSeq(current_videos, IsNew)

\* the entry below with one scroll already counted
ChannelEntry_counted(max_videos) ==
    [pc |-> "loop", max_videos |-> max_videos, all_videos |-> << >>,
     scroll_count |-> 1, last_video_count |-> 0, no_new_videos_count |-> 0]

\* the locals of the loop at its entry; max_videos 0 stands for None
ChannelEntry(max_videos) ==
    [pc |-> "loop", max_videos |-> max_videos, all_videos |-> << >>,
     scroll_count |-> 0, last_video_count |-> 0, no_new_videos_count |-> 0]

\* the iteration below without the cut all_videos[:max_videos]
extract_videos_by_scrolling_uncut(c, links) ==
    LET new_videos == filter_new_videos(extract_videos_from_page(links), c.all_videos)
        all        == c.all_videos \o new_videos
        reached    == c.max_videos # 0 /\ Len(all) >= c.max_videos
        no_new     == IF Len(new_videos) = 0 THEN c.no_new_videos_count + 1 ELSE 0
        d          == [c EXCEPT !.scroll_count = c.scroll_count + 1,
                                !.all_videos = all]
    IN IF reached
       THEN [d EXCEPT !.pc = "done"]
       ELSE IF Len(new_videos) = 0 /\ no_new >= NoNewVideosLimit
       THEN [d EXCEPT !.pc = "done", !.no_new_videos_count = no_new]
       ELSE IF Len(all) = c.last_video_count
       THEN [d EXCEPT !.pc = "done", !.no_new_videos_count = no_new]
       ELSE [d EXCEPT !.pc = IF d.scroll_count < max_scrolls THEN "loop" ELSE "done",
                      !.no_new_videos_count = no_new,
                      !.last_video_count = Len(all)]

\* one iteration of the while loop: scroll, read the page, extend all_videos,
\* then the maximum check, the no-new-videos counter, the end-of-channel check
extract_videos_by_scrolling(c, links) ==
    LET new_videos == filter_new_videos(extract_videos_from_page(links), c.all_videos)
        all        == c.all_videos \o new_videos
        reached    == c.max_videos # 0 /\ Len(all) >= c.max_videos
        no_new     == IF Len(new_videos) = 0 THEN c.no_new_videos_count + 1 ELSE 0
        d          == [c EXCEPT !.scroll_count = c.scroll_count + 1,
                                !.all_videos = all]
    IN IF reached
       THEN [d EXCEPT !.pc = "done", !.all_videos = SubSeq(all, 1, c.max_videos)]
       ELSE IF Len(new_videos) = 0 /\ no_new >= NoNewVideosLimit
       THEN [d EXCEPT !.pc = "done", !.no_new_videos_count = no_new]
       ELSE IF Len(all) = c.last_video_count
       THEN [d EXCEPT !.pc = "done", !.no_new_videos_count = no_new]
       ELSE [d EXCEPT !.pc = IF d.scroll_count < max_scrolls THEN "loop" ELSE "done",
                      !.no_new_videos_count = no_new,
                      !.last_video_count = Len(all)]

\* a call of _extract_videos_by_scrolling(max_videos) up to its while loop
ChannelStart(max_videos) ==
    /\ channel.pc \in {"idle", "done", "returned"}
    /\ channel' = ChannelEntry(max_videos)
    /\ found' = [found EXCEPT !.channel = << >>, !.reveals = << >>, !.errors = 0,
                              !.repeats = 0]
    /\ UNCHANGED <<appVars, excelVars, enhVars, concVars, loopVars, utilVars>>

\* one iteration on the page the browser shows after the scroll
ChannelScroll(links) ==
    /\ channel.pc = "loop"
    /\ channel' = extract_videos_by_scrolling(channel, links)
    /\ LET fresh == Discovered(extract_videos_from_page(links), links,
                                Range(UrlsOf(found.channel))) IN
       found' = [found EXCEPT !.channel = found.channel \o fresh,
                              !.reveals = Append(found.reveals, Len(fresh)),
                              !.repeats = @ + Len(links) - Len(fresh)]
    /\ UNCHANGED <<appVars, excelVars, enhVars, concVars, loopVars, utilVars>>

\* a channel whose every scroll reveals one more video: link n of its feed
FeedLink(n) ==
    <<"https:", "/", "/", "www.tiktok.com", "/", "@", "alice", "/", "video", "/", ToString(n)>>

\* the page of that channel after k revealed videos: the newest links, the
\* next one last
FeedPage(k) ==
    LET lo == IF k + 2 > MaxSnapshot THEN k + 2 - MaxSnapshot ELSE 1 IN
    [i \in 1..(k + 2 - lo) |-> FeedLink(lo + i - 1)]

\* the maxima of the feed runs: none, and values around the scroll ceiling
FeedTargets == {0} \cup ((max_scrolls - MaxTarget)..(max_scrolls + MaxTarget))

(* TikTokSearcherEnhanced._scroll_and_extract_videos *)

Heights == {"h1", "h2"}

\* the hrefs of the a[href*='/video/'] elements of a page, in document order
EnhPages == SeqsUpTo(EnhHrefs, MaxSnapshot)

\* _extract_video_links_from_current_page: _extract_video_info gives None for
\* a video_id that is already in existing_video_ids
extract_video_links_from_current_page(ids, hrefs) ==
    LET Kept(h) == /\ Contains(h, <<"/", "video", "/">>)
                   /\ EnhVideo(h, "cats", "t1").video_id \notin ids
    IN [i \in 1..Len(SelectSeq(hrefs, Kept)) |->
           EnhVideo(SelectSeq(hrefs, Kept)[i], "cats", "t1")]

\* the for loop over new_videos: append while the id is non-empty, unknown and
\* the list is shorter than max_links; the id becomes known
RECURSIVE add_unique(_, _, _, _)
add_unique(videos, ids, new_videos, max_links) ==
    IF new_videos = << >> THEN [videos |-> videos, ids |-> ids]
    ELSE LET video == Head(new_videos) IN
         IF /\ video.video_id # EmptyStr
            /\ video.video_id \notin ids
            /\ Len(videos) < max_links
         THEN add_unique(Append(videos, video), ids \cup {video.video_id},
                         Tail(new_videos), max_links)
         ELSE add_unique(videos, ids, Tail(new_videos), max_links)

\* the condition of the while loop
EnhContinue(e) ==
    Len(e.videos) < e.max_links /\ e.scroll_attempts < max_scroll_attempts

\* one iteration of the while loop: extract, add, scroll, compare the heights,
\* leave when min_links is reached
scroll_and_extract_videos(e, ids, hrefs, new_height) ==
    LET added == add_unique(e.videos, ids,
                            extract_video_links_from_current_page(ids, hrefs),
                            e.max_links)
        d == [e EXCEPT !.videos = added.videos,
                       !.scroll_attempts = IF new_height = e.last_height
                                           THEN e.scroll_attempts + 1 ELSE 0,
                       !.last_height = new_height]
    IN [ids |-> added.ids,
        enh |-> [d EXCEPT !.pc = IF Len(d.videos) >= d.min_links THEN "done"
                                 ELSE IF EnhContinue(d) THEN "loop" ELSE "done"]]

\* search_videos reaches _scroll_and_extract_videos: the locals at loop entry
EnhStart(height) ==
    /\ enh.pc \in {"ready", "done", "returned", "raised"}
    /\ LET e == [enh EXCEPT !.videos = << >>, !.scroll_attempts = 0,
                            !.last_height = height] IN
       enh' = [e EXCEPT !.pc = IF EnhContinue(e) THEN "loop" ELSE "done"]
    /\ found' = [found EXCEPT !.enhanced = << >>, !.known = existing_video_ids]
    /\ UNCHANGED <<appVars, master, existing_video_ids, channel, excelVars, concVars, loopVars, utilVars>>

\* one iteration on the page the browser shows
EnhScroll(hrefs, new_height) ==
    /\ enh.pc = "loop"
    /\ LET r == scroll_and_extract_videos(enh, existing_video_ids, hrefs, new_height) IN
       /\ enh' = r.enh
       /\ existing_video_ids' = r.ids
    /\ LET page == [i \in 1..Len(hrefs) |-> EnhVideo(hrefs[i], "cats", "t1")] IN
       found' = [found EXCEPT !.enhanced =
                    found.enhanced \o Discovered(page, IdsOf(page),
                                                 found.known \cup Range(IdsOf(found.enhanced)))]
    /\ UNCHANGED <<appVars, master, channel, excelVars, concVars, loopVars, utilVars>>

(* TikTokSearcher._scroll_to_load_videos of the basic downloader *)

\* one iteration of its while loop: scroll, compare the heights
scroll_to_load_videos(b, new_height) ==
    LET attempts == IF new_height = b.last_height THEN b.scroll_attempts + 1 ELSE 0 IN
    [pc |-> IF attempts < max_attempts THEN "loop" ELSE "done",
     scroll_attempts |-> attempts,
     last_height |-> new_height]

\* search_videos reaches _scroll_to_load_videos: the locals at loop entry
BasicStart(height) ==
    /\ basic.pc \in {"idle", "done"}
    /\ basic' = [pc |-> "loop", scroll_attempts |-> 0, last_height |-> height]
    /\ UNCHANGED <<appVars, excelVars, enhVars, concVars, scrollVars, returned, utilVars>>

\* one iteration at the height the page has after the scroll
BasicScroll(new_height) ==
    /\ basic.pc = "loop"
    /\ basic' = scroll_to_load_videos(basic, new_height)
    /\ UNCHANGED <<appVars, excelVars, enhVars, concVars, scrollVars, returned, utilVars>>

InitBasic ==
    /\ basic = [pc |-> "idle", scroll_attempts |-> 0, last_height |-> "h1"]
    /\ returned = [call |-> "none", failed |-> FALSE, value |-> << >>]

InitScroll ==
    /\ channel = [ChannelEntry(0) EXCEPT !.pc = "idle"]
    /\ found = [channel |-> << >>, reveals |-> << >>, errors |-> 0, repeats |-> 0,
                enhanced |-> << >>, known |-> {}, handed |-> {}]

-----------------------------------------------------------------------------
(* Link extraction and identity resolution as calls *)

UrlKey   == "\"url\":\""
ShareKey == "\"shareUrl\":\""
HrefKey  == "href=\""
Quote    == "\""

Patterns == 1..6

\* the length of the match of TIKTOK_URL_PATTERNS[k] that starts at atom i of
\* the page, 0 when the pattern does not match there
MatchLen(k, page, i) ==
    LET At(j) == IF i + j - 1 <= Len(page) THEN page[i + j - 1] ELSE "<end>"
        Canonical(o) ==
            /\ <<At(o + 1), At(o + 2), At(o + 3), At(o + 4), At(o + 5), At(o + 6)>>
                  = <<"https:", "/", "/", "www.tiktok.com", "/", "@">>
            /\ IsWord(At(o + 7))
            /\ <<At(o + 8), At(o + 9), At(o + 10)>> = <<"/", "video", "/">>
            /\ IsDigits(At(o + 11))
        Keyed(key) == At(1) = key /\ Canonical(1) /\ At(13) = Quote
    IN CASE k = 1 -> IF Canonical(0) THEN 11 ELSE 0
         [] k = 2 -> IF /\ <<At(1), At(2), At(3), At(4), At(5)>>
                              = <<"https:", "/", "/", "vm.tiktok.com", "/">>
                        /\ IsAlnum(At(6))
                        /\ At(7) = "/"
                     THEN 7 ELSE 0
         [] k = 3 -> IF /\ <<At(1), At(2), At(3), At(4), At(5), At(6), At(7)>>
                              = <<"https:", "/", "/", "www.tiktok.com", "/", "t", "/">>
                        /\ IsAlnum(At(8))
                        /\ At(9) = "/"
                     THEN 9 ELSE 0
         [] k = 4 -> IF Keyed(UrlKey) THEN 13 ELSE 0
         [] k = 5 -> IF Keyed(ShareKey) THEN 13 ELSE 0
         [] k = 6 -> IF Keyed(HrefKey) THEN 13 ELSE 0

\* what re.findall reports for a match: the group of the patterns 4 to 6,
\* the whole match of the patterns 1 to 3
MatchText(k, page, i) ==
    IF k >= 4 THEN SubSeq(page, i + 1, i + 11)
    ELSE SubSeq(page, i, i + MatchLen(k, page, i) - 1)

\* re.findall(TIKTOK_URL_PATTERNS[k], page) from atom i on: the matches from
\* left to right, none overlapping an earlier one
RECURSIVE findall(_, _, _)
findall(k, page, i) ==
    IF i > Len(page) THEN << >>
    ELSE IF MatchLen(k, page, i) > 0
    THEN <<MatchText(k, page, i)>> \o findall(k, page, i + MatchLen(k, page, i))
    ELSE findall(k, page, i + 1)

\* the loop over the patterns from pattern k on: found_links.extend(matches)
RECURSIVE extend_from(_, _)
extend_from(k, page) ==
    IF k > 6 THEN << >> ELSE findall(k, page, 1) \o extend_from(k + 1, page)

\* the loop over the patterns taken from the last to the first
RECURSIVE extend_down(_, _)
extend_down(k, page) ==
    IF k < 1 THEN << >> ELSE findall(k, page, 1) \o extend_down(k - 1, page)

found_links_reversed(page) == extend_down(6, page)

\* found_links after the loop over TIKTOK_URL_PATTERNS
found_links(page) == extend_from(1, page)

\* the second loop without its seen test
remove_duplicates_none(links) == links

\* the second loop: each link once, at the place of its first occurrence
remove_duplicates(links) == Discovered(links, links, {})

\* find_tiktok_links(page_source)
find_tiktok_links(page) == remove_duplicates(found_links(page))

\* the pieces page texts are made of: plain links, links in JSON and in
\* attributes, a link with a query string inside an attribute
PageFragments ==
    {UrlAlice, UrlShort1, UrlShort2,
     <<UrlKey>> \o UrlAlice \o <<Quote>>,
     <<ShareKey>> \o UrlBob \o <<Quote>>,
     <<HrefKey>> \o UrlBob \o <<"?", "lang=en", Quote>>}

RECURSIVE PagesOf(_)
PagesOf(n) ==
    IF n = 0 THEN {<< >>}
    ELSE PagesOf(n - 1) \cup {p \o f : p \in PagesOf(n - 1), f \in PageFragments}

Pages == PagesOf(MaxFragments)

\* the page grows by a fragment and find_tiktok_links reads it
FindTiktokLinks(fragment) ==
    /\ page_source \o fragment \in Pages
    /\ page_source' = page_source \o fragment
    /\ unique_links' = find_tiktok_links(page_source \o fragment)
    /\ UNCHANGED <<appVars, excelVars, enhVars, concVars, scrollVars, loopVars, resolved>>

\* owners and numbers of canonical URLs
OwnerAtoms == NameAtoms \cup DottedAtoms \cup {"7"}

CanonicalUrl(owner, digits) ==
    <<"https:", "/", "/", "www.tiktok.com", "/", "@", owner, "/", "video", "/", digits>>

CanonicalUrls == {CanonicalUrl(o, n) : o \in OwnerAtoms, n \in DigitAtoms}

\* a short link without the trailing slash, and a URL of another site
UrlShort3 == <<"https:", "/", "/", "vm.tiktok.com", "/", "xyz">>
UrlOther  == <<"https:", "/", "/", "example.com", "/", "abc">>

ResolverUrls ==
    CanonicalUrls \cup {UrlPadded, UrlAliceQ, UrlShort1, UrlShort2, UrlShort3,
                        UrlOther, EmptyStr}

\* a call of extract_video_info(url)
ExtractVideoInfo(u) ==
    /\ resolved' = [url |-> u,
                    username |-> extract_video_info(u).username,
                    video_id |-> extract_video_info(u).video_id]
    /\ UNCHANGED <<appVars, excelVars, enhVars, concVars, scrollVars, loopVars,
                   page_source, unique_links>>

InitUtil ==
    /\ page_source = << >>
    /\ unique_links = << >>
    /\ resolved = [url |-> << >>, username |-> <<"unknown">>, video_id |-> <<"unknown">>]

-----------------------------------------------------------------------------
(* Discovery calls, their failures and what they return *)

Take(s, n) == SubSeq(s, 1, IF n < Len(s) THEN n ELSE Len(s))

\* TikTokSearcher.search_tiktok(query, max_results): navigated is the result of
\* navigate_to_url, raised an exception of the scroll or of the page read
search_tiktok(navigated, raised, page, max_results) ==
    IF ~navigated THEN << >>
    ELSE IF raised THEN << >>
    ELSE LET links == Take(find_tiktok_links(page), max_results) IN
         [i \in 1..Len(links) |-> MakeVideo(links[i], "cats", "t1")]

\* TikTokSearchWithLogin.search_with_login(query, max_results): logged_in is the
\* result of ensure_login, driver whether the login manager has a browser
search_with_login(logged_in, driver, raised, page, max_results) ==
    LET limit == IF logged_in \/ max_results < LoggedOutLimit
                 THEN max_results ELSE LoggedOutLimit
    IN IF ~driver THEN << >>
       ELSE IF raised THEN << >>
       ELSE LET links == Take(find_tiktok_links(page), limit) IN
            [i \in 1..Len(links) |->
                LET info == extract_video_info(links[i]) IN
                [url |-> links[i], username |-> info.username,
                 video_id |-> info.video_id,
                 title |-> <<"Video by @">> \o info.username,
                 search_query |-> "cats"]]

\* the page texts of the searches: up to MaxSnapshot fragments
SearchPages == PagesOf(MaxSnapshot)

\* BrowserManager.cleanup: quit is called only when is_driver_active() holds,
\* that is when reading driver.current_url does not raise
cleanup(b, responsive) ==
    IF b.driver = "open" /\ responsive THEN [b EXCEPT !.driver = "quit"] ELSE b

\* a call of search_tiktok: BrowserManager() starts a driver and the finally
\* branch runs cleanup; responsive tells whether the driver answers then
SearchTiktok(navigated, raised, responsive, page, max_results) ==
    /\ returned' = [call |-> "search_tiktok",
                    failed |-> ~navigated \/ raised,
                    value |-> search_tiktok(navigated, raised, page, max_results)]
    /\ browser' = cleanup([driver |-> "open"], responsive)
    /\ UNCHANGED <<gui, login, excelVars, enhVars, concVars, scrollVars, basic, utilVars>>

\* a call of search_with_login
SearchWithLogin(logged_in, driver, raised, page, max_results) ==
    /\ returned' = [call |-> "search_with_login",
                    failed |-> ~driver \/ raised,
                    value |-> search_with_login(logged_in, driver, raised, page,
                                                max_results)]
    /\ UNCHANGED <<appVars, excelVars, enhVars, concVars, scrollVars, basic, utilVars>>

\* search_videos of the enhanced searcher after its loop: the list is returned
EnhReturn ==
    /\ enh.pc = "done"
    /\ enh' = [enh EXCEPT !.pc = "returned"]
    /\ returned' = [call |-> "search_videos", failed |-> FALSE, value |-> enh.videos]
    /\ found' = [found EXCEPT !.handed = @ \cup Range(IdsOf(enh.videos))]
    /\ UNCHANGED <<appVars, master, existing_video_ids, excelVars, concVars, channel,
                   basic, utilVars>>

\* search_and_update_excel after search_videos: a non-empty list is handed to
\* update_excel_file
EnhUpdate(saveOk) ==
    /\ returned.call = "search_videos"
    /\ returned.value # << >>
    /\ Len(RowsOf(master)) + Len(returned.value) <= MaxMasterRows
    /\ master' = update_excel_file(master, returned.value, saveOk).wb
    /\ UNCHANGED <<appVars, existing_video_ids, enh, excelVars, concVars, scrollVars,
                   loopVars, utilVars>>

\* an iteration in which the scroll or the height read raises, after the
\* videos of the page were added: search_videos catches the exception and
\* returns its own list, which is still empty
EnhRaise(hrefs) ==
    /\ enh.pc = "loop"
    /\ LET added == add_unique(enh.videos, existing_video_ids,
                               extract_video_links_from_current_page(existing_video_ids, hrefs),
                               enh.max_links) IN
       /\ existing_video_ids' = added.ids
       /\ enh' = [enh EXCEPT !.pc = "raised", !.videos = added.videos]
    /\ returned' = [call |-> "search_videos", failed |-> TRUE, value |-> << >>]
    /\ UNCHANGED <<appVars, master, excelVars, concVars, scrollVars, basic, utilVars>>

\* the navigation of search_videos raises: the except branch returns the list
EnhNavigationRaise ==
    /\ enh.pc \in {"ready", "done", "returned", "raised"}
    /\ enh' = [enh EXCEPT !.pc = "raised", !.videos = << >>]
    /\ returned' = [call |-> "search_videos", failed |-> TRUE, value |-> << >>]
    /\ UNCHANGED <<appVars, master, existing_video_ids, excelVars, concVars, scrollVars,
                   basic, utilVars>>

\* an iteration of the channel loop in which reading the page raises:
\* _extract_videos_from_page catches the exception and returns []
ChannelPageError ==
    /\ channel.pc = "loop"
    /\ channel' = extract_videos_by_scrolling(channel, << >>)
    /\ found' = [found EXCEPT !.reveals = Append(found.reveals, 0),
                              !.errors = found.errors + 1]
    /\ returned' = [call |-> "_extract_videos_from_page", failed |-> TRUE, value |-> << >>]
    /\ UNCHANGED <<appVars, excelVars, enhVars, concVars, basic, utilVars>>

\* extract_channel_videos after the loop: the list is returned
ChannelReturn ==
    /\ channel.pc = "done"
    /\ channel' = [channel EXCEPT !.pc = "returned"]
    /\ returned' = [call |-> "extract_channel_videos", failed |-> found.errors > 0,
                    value |-> channel.all_videos]
    /\ UNCHANGED <<appVars, found, excelVars, enhVars, concVars, basic, utilVars>>

\* ChannelSearcher.search_channel after extract_channel_videos: every video
\* of a non-empty list gets the search type and the query "@<username>"
search_channel(videos) ==
    [i \in 1..Len(videos) |->
        [url |-> videos[i].url, username |-> videos[i].username,
         video_id |-> videos[i].video_id, title |-> videos[i].title,
         extracted_date |-> videos[i].extracted_date,
         search_type |-> "channel", search_query |-> "@alice"]]

\* search_channel returns the list of extract_channel_videos with its stamps
SearchChannel ==
    /\ channel.pc = "returned"
    /\ returned.call = "extract_channel_videos"
    /\ returned' = [call |-> "search_channel", failed |-> returned.failed,
                    value |-> search_channel(returned.value)]
    /\ UNCHANGED <<appVars, excelVars, enhVars, concVars, scrollVars, basic, utilVars>>

\* the calls whose list the programs hand to save_videos_to_excel
Discoveries == {"search_tiktok", "search_with_login", "search_channel"}

\* TikTokSearcher.save_to_excel(videos, filename) with the list returned by
\* the discovery: a new ExcelManager and one create_and_save
SaveToExcel(f, saveOk) ==
    /\ returned.call \in Discoveries
    /\ returned.value # << >>
    /\ LET r == create_and_save({}, file, f, returned.value, saveOk) IN
       /\ existing_links' = r.links
       /\ file' = r.fs
       /\ passed' = [passed EXCEPT ![f] = @ \cup KeysOf(returned.value)]
       /\ last' = [op |-> "save_to_excel", f |-> f, ok |-> r.ok,
                   file_exists |-> r.file_exists, written |-> Len(r.new),
                   dup |-> r.dup]
    /\ UNCHANGED <<appVars, enhVars, concVars, scrollVars, loopVars, utilVars>>

-----------------------------------------------------------------------------
(* MainWindow: search requests and worker threads *)

Kinds == {"subject", "channel"}

\* _start_search / _start_channel_search: the flag is set and a thread started
start_search(g, kind) ==
    [g EXCEPT !.is_searching = TRUE, !.alive = @ + 1, !.kind = kind,
              !.req = "started"]

\* the handler below without its test of is_searching
on_search_requested_unchecked(g, kind) == start_search(g, kind)

\* _on_search_requested / _on_channel_search_requested
on_search_requested(g, kind) ==
    IF g.is_searching THEN [g EXCEPT !.req = "rejected"] ELSE start_search(g, kind)

NoResult == [call |-> "none", failed |-> FALSE, value |-> << >>]

\* the user asks for a search; a started search clears the shown results
SearchRequested(kind) ==
    /\ gui.alive < MaxWorkers
    /\ LET g == on_search_requested(gui, kind) IN
       /\ gui' = g
       /\ returned' = IF g.alive > gui.alive THEN NoResult ELSE returned
    /\ UNCHANGED <<browser, login, excelVars, enhVars, concVars, scrollVars, basic,
                   utilVars>>

\* the worker leaves _perform_search or _perform_channel_search after its
\* search returned: the finally branch schedules _reset_search_state
WorkerEnds ==
    /\ gui.alive > 0
    /\ returned.call \in {"search_with_login", "search_channel"}
    /\ gui' = [gui EXCEPT !.alive = @ - 1, !.pending = @ + 1]
    /\ UNCHANGED <<browser, login, excelVars, enhVars, concVars, scrollVars, loopVars,
                   utilVars>>

\* the worker raises before its search returns: the except branch reports the
\* error and the finally branch schedules _reset_search_state
WorkerRaises ==
    /\ gui.alive > 0
    /\ returned.call = "none" /\ channel.pc # "loop"
    /\ gui' = [gui EXCEPT !.alive = @ - 1, !.pending = @ + 1, !.req = "error"]
    /\ UNCHANGED <<browser, login, excelVars, enhVars, concVars, scrollVars, loopVars,
                   utilVars>>

\* the event loop runs a scheduled _reset_search_state
ResetSearchState ==
    /\ gui.pending > 0
    /\ gui' = [gui EXCEPT !.is_searching = FALSE, !.kind = "none", !.pending = @ - 1]
    /\ UNCHANGED <<browser, login, excelVars, enhVars, concVars, scrollVars, loopVars,
                   utilVars>>

\* MainWindow.__init__
InitGui ==
    gui = [is_searching |-> FALSE, alive |-> 0, pending |-> 0, kind |-> "none",
           req |-> "none"]

-----------------------------------------------------------------------------
(* TikTokLoginManager: the confirmation loop of _perform_login *)

\* str.upper() on the letters of the answers
upper(s) ==
    [i \in 1..Len(s) |-> IF s[i] = "y" THEN "Y"
                         ELSE IF s[i] = "n" THEN "N"
                         ELSE IF s[i] = "q" THEN "Q" ELSE s[i]]

\* what the user types at the prompt
Answers == {<<"Y">>, <<"y">>, <<" ", "y", " ">>, <<"N">>, <<"n">>, <<"q">>, << >>}

\* the pass below with every answer but N taken as confirmation
login_answer_any(l, raw, cookiesOk, writeOk) ==
    LET confirmation == upper(strip(raw))
        l1 == [l EXCEPT !.answers = Append(@, raw)]
    IN IF confirmation # <<"N">>
       THEN IF cookiesOk
            THEN [l1 EXCEPT !.session_data = "cookies",
                            !.saved = IF writeOk THEN "written" ELSE "failed",
                            !.session_file = IF writeOk THEN "cookies" ELSE @,
                            !.pc = "returned", !.result = "True"]
            ELSE [l1 EXCEPT !.pc = "returned", !.result = "False"]
       ELSE l1

\* one pass of the while loop of _perform_login on the typed answer raw;
\* cookiesOk: driver.get_cookies returns, writeOk: _save_session can write
login_answer(l, raw, cookiesOk, writeOk) ==
    LET confirmation == upper(strip(raw))
        l1 == [l EXCEPT !.answers = Append(@, raw)]
    IN IF confirmation = <<"Y">>
       THEN IF cookiesOk
            THEN [l1 EXCEPT !.session_data = "cookies",
                            !.saved = IF writeOk THEN "written" ELSE "failed",
                            !.session_file = IF writeOk THEN "cookies" ELSE @,
                            !.pc = "returned", !.result = "True"]
            ELSE [l1 EXCEPT !.pc = "returned", !.result = "False"]
       ELSE l1

\* _perform_login up to its loop: without a browser, or when the login page
\* does not open, it returns False
PerformLogin(driverOk) ==
    /\ login.pc \in {"idle", "returned"}
    /\ login' = [login EXCEPT !.pc = IF driverOk THEN "waiting" ELSE "returned",
                              !.result = IF driverOk THEN "none" ELSE "False",
                              !.answers = << >>, !.saved = "no"]
    /\ UNCHANGED <<browser, gui, excelVars, enhVars, concVars, scrollVars, loopVars,
                   utilVars>>

\* the user answers the prompt
Answer(raw, cookiesOk, writeOk) ==
    /\ login.pc = "waiting"
    /\ Len(login.answers) < MaxAnswers
    /\ login' = login_answer(login, raw, cookiesOk, writeOk)
    /\ UNCHANGED <<browser, gui, excelVars, enhVars, concVars, scrollVars, loopVars,
                   utilVars>>

\* input() raises (the input stream is closed): the except branch returns False
InputRaises ==
    /\ login.pc = "waiting"
    /\ login' = [login EXCEPT !.pc = "returned", !.result = "False"]
    /\ UNCHANGED <<browser, gui, excelVars, enhVars, concVars, scrollVars, loopVars,
                   utilVars>>

\* TikTokLoginManager.__init__ without a session file
InitLogin ==
    login = [pc |-> "idle", result |-> "none", answers |-> << >>,
             session_data |-> "empty", session_file |-> "absent", saved |-> "no"]

-----------------------------------------------------------------------------
(* Specifications *)

\* no BrowserManager yet
InitBrowser == browser = [driver |-> "none"]

Init ==
    /\ InitExcel /\ InitEnh /\ InitConc /\ InitScroll /\ InitBasic /\ InitUtil
    /\ InitBrowser /\ InitGui /\ InitLogin

\* one manager at a time, any file, persistence available
Next ==
    \/ NewManager
    \/ \E f \in Files, videos \in StoreBatches : CreateAndSave(f, videos, TRUE)

Spec == Init /\ [][Next]_vars

\* as Spec, and workbook.save may fail
NextFault ==
    \/ NewManager
    \/ \E f \in Files, videos \in StoreBatches, saveOk \in BOOLEAN :
           CreateAndSave(f, videos, saveOk)

SpecFault == Init /\ [][NextFault]_vars

\* one file that may become unreadable, and workbook.save may fail
NextDamage ==
    \/ NewManager
    \/ \E videos \in StoreBatches, saveOk \in BOOLEAN :
           CreateAndSave("f1", videos, saveOk)
    \/ Damage("f1")

SpecDamage == Init /\ [][NextDamage]_vars

\* one file, rows with different timestamps
NextRows ==
    \/ NewManager
    \/ \E videos \in RowBatches : CreateAndSave("f1", videos, TRUE)

SpecRows == Init /\ [][NextRows]_vars

\* the two writers of persisted workbooks: ExcelManager on f1 and
\* TikTokSearcherEnhanced on its master workbook
MergeBatches == SeqsUpTo({MakeVideo(u, "cats", "t1") : u \in {UrlAlice, UrlShort1}}, MaxBatch)

NextMerge ==
    \/ NewManager
    \/ \E videos \in MergeBatches : CreateAndSave("f1", videos, TRUE)
    \/ NewSearcher(1, 2)
    \/ \E videos \in EnhBatches, saveOk \in BOOLEAN : UpdateExcelFile(videos, saveOk)

SpecMerge == Init /\ [][NextMerge]_vars

\* two export threads on the same file
NextConc ==
    \E t \in Threads :
        \/ \E videos \in ConcBatches : TStart(t, videos)
        \/ TLoad(t)
        \/ TFilter(t)
        \/ TAdd(t)
        \/ TSave(t)

SpecConc == Init /\ [][NextConc]_vars

\* the scroll loops; the channel extractor and the enhanced searcher are
\* separate programs, a run has one of them
NextScroll ==
    \/ \E m \in 0..MaxTarget : enh.pc = "none" /\ ChannelStart(m)
    \/ \E links \in ChannelPages : ChannelScroll(links)
    \/ \E lo, hi \in 0..MaxTarget : channel.pc = "idle" /\ NewSearcher(lo, hi)
    \/ \E height \in Heights : EnhStart(height)
    \/ \E hrefs \in EnhPages, height \in Heights : EnhScroll(hrefs, height)

SpecScroll == Init /\ [][NextScroll]_vars

\* the channel loop on a feed that reveals one new video per scroll
NextCeiling ==
    \/ \E m \in FeedTargets : ChannelStart(m)
    \/ ChannelScroll(FeedPage(Len(found.channel)))

SpecCeiling == Init /\ [][NextCeiling]_vars

\* calls of find_tiktok_links and of extract_video_info
NextUtil ==
    \/ \E fragment \in PageFragments : FindTiktokLinks(fragment)
    \/ \E u \in ResolverUrls : ExtractVideoInfo(u)

SpecUtil == Init /\ [][NextUtil]_vars

\* discovery calls with failures of the content source, one program per run
NextFail ==
    \/ \E m \in 0..MaxTarget :
          /\ enh.pc = "none"
          /\ returned.call \in {"none", "_extract_videos_from_page", "extract_channel_videos"}
          /\ ChannelStart(m)
    \/ \E links \in ChannelPages : ChannelScroll(links)
    \/ \E lo, hi \in 1..MaxTarget :
          /\ enh.pc = "none" /\ channel.pc = "idle" /\ returned.call = "none"
          /\ NewSearcher(lo, hi)
    \/ \E height \in Heights : EnhStart(height)
    \/ \E hrefs \in EnhPages, height \in Heights : EnhScroll(hrefs, height)
    \/ EnhReturn
    \/ \E hrefs \in EnhPages : EnhRaise(hrefs)
    \/ EnhNavigationRaise
    \/ ChannelPageError
    \/ ChannelReturn
    \/ \E navigated, raised, responsive \in BOOLEAN, page \in SearchPages,
          max_results \in 1..MaxTarget :
          /\ enh.pc = "none" /\ channel.pc = "idle"
          /\ SearchTiktok(navigated, raised, responsive, page, max_results)
    \/ \E logged_in, driver, raised \in BOOLEAN, page \in SearchPages,
          max_results \in 1..MaxTarget :
          /\ enh.pc = "none" /\ channel.pc = "idle"
          /\ SearchWithLogin(logged_in, driver, raised, page, max_results)

SpecFail == Init /\ [][NextFail]_vars

\* one discovery of a program run, followed by the saves of its list
NextProv ==
    \/ \E navigated, raised, responsive \in BOOLEAN, page \in SearchPages,
          max_results \in 1..MaxTarget :
          /\ channel.pc = "idle" /\ returned.call = "none"
          /\ SearchTiktok(navigated, raised, responsive, page, max_results)
    \/ \E logged_in, driver, raised \in BOOLEAN, page \in SearchPages,
          max_results \in 1..MaxTarget :
          /\ channel.pc = "idle" /\ returned.call = "none"
          /\ SearchWithLogin(logged_in, driver, raised, page, max_results)
    \/ \E m \in 0..MaxTarget :
          /\ channel.pc = "idle" /\ returned.call = "none"
          /\ ChannelStart(m)
    \/ \E links \in ChannelPages : ChannelScroll(links)
    \/ ChannelReturn
    \/ SearchChannel
    \/ \E f \in Files, saveOk \in BOOLEAN : SaveToExcel(f, saveOk)

SpecProv == Init /\ [][NextProv]_vars

\* one TikTokSearcherEnhanced: searches that return or fail, and updates of
\* the master workbook with the returned list
NextKnown ==
    \/ \E hi \in 1..MaxTarget : returned.call = "none" /\ NewSearcher(1, hi)
    \/ \E height \in Heights : enh.pc # "done" /\ EnhStart(height)
    \/ \E hrefs \in EnhPages, height \in Heights : EnhScroll(hrefs, height)
    \/ EnhReturn
    \/ \E hrefs \in EnhPages : EnhRaise(hrefs)
    \/ EnhNavigationRaise
    \/ \E saveOk \in BOOLEAN : EnhUpdate(saveOk)

SpecKnown == Init /\ [][NextKnown]_vars

\* the window: requests of the user, the worker of a started search, and the
\* event loop
NextGui ==
    \/ \E kind \in Kinds : SearchRequested(kind)
    \/ \E logged_in, driver, raised \in BOOLEAN, page \in PagesOf(1) :
          /\ gui.alive > 0 /\ gui.kind = "subject" /\ returned.call = "none"
          /\ SearchWithLogin(logged_in, driver, raised, page, MaxTarget)
    \/ /\ gui.alive > 0 /\ gui.kind = "channel" /\ returned.call = "none"
       /\ channel.pc # "done"
       /\ ChannelStart(MaxTarget)
    \/ \E links \in ChannelPages : gui.alive > 0 /\ ChannelScroll(links)
    \/ gui.alive > 0 /\ ChannelReturn
    \/ gui.alive > 0 /\ SearchChannel
    \/ WorkerEnds
    \/ WorkerRaises
    \/ ResetSearchState

SpecGui == Init /\ [][NextGui]_vars

\* the event loop of Tk runs every callback scheduled with root.after
SpecGuiLive == SpecGui /\ WF_vars(ResetSearchState)

\* calls of _perform_login and the answers of the user
NextLogin ==
    \/ \E driverOk \in BOOLEAN : PerformLogin(driverOk)
    \/ \E raw \in Answers, cookiesOk, writeOk \in BOOLEAN : Answer(raw, cookiesOk, writeOk)
    \/ InputRaises

SpecLogin == Init /\ [][NextLogin]_vars

\* the three scroll loops, one program per run; a loop that is running always
\* takes its next iteration
NextLive ==
    \/ basic.pc = "idle" /\ NextScroll
    \/ \E height \in Heights :
          enh.pc = "none" /\ channel.pc = "idle" /\ BasicStart(height)
    \/ \E height \in Heights : BasicScroll(height)

SpecLive ==
    /\ Init /\ [][NextLive]_vars
    /\ WF_vars(\E links \in ChannelPages : ChannelScroll(links))
    /\ WF_vars(\E hrefs \in EnhPages, height \in Heights : EnhScroll(hrefs, height))
    /\ WF_vars(\E height \in Heights : BasicScroll(height))

-----------------------------------------------------------------------------
(* Properties of the accumulation store *)

\* C1: idempotence of accumulation.  From every reachable state, when
\* create_and_save(V, F) is called twice in succession on the same manager,
\* the second call appends zero rows, counts every item of V as a duplicate,
\* and leaves the URLs and the number of rows of F as the first call left them.
C1_Idempotence ==
    \A f \in Files, videos \in StoreBatches :
        LET r1 == create_and_save(existing_links, file, f, videos, TRUE)
            r2 == create_and_save(r1.links, r1.fs, f, videos, TRUE)
        IN  /\ r2.new = << >>
            /\ r2.dup = Len(videos)
            /\ KeysIn(r2.fs, f) = KeysIn(r1.fs, f)
            /\ Len(RowsIn(r2.fs, f)) = Len(RowsIn(r1.fs, f))

\* C2: no-loss merge.  After any sequence of create_and_save calls, the URLs
\* readable from each file are exactly the URLs of all items passed in by the
\* calls on that file (the files start absent).
C2_NoLossMerge ==
    \A f \in Files : KeysIn(file, f) = passed[f]

\* C3: one row per identity.  No file holds two data rows with the same
\* video id, and a step never changes the timestamp of a row that exists.
NoTwoRowsSameId ==
    \A f \in Files :
        \A i, j \in 1..Len(RowsIn(file, f)) :
            i # j => file[f].rows[i].video_id # file[f].rows[j].video_id

RowsKeepTimestamp ==
    \A f \in Files :
        \A i \in 1..Len(RowsIn(file, f)) :
            /\ file'[f] # NoFile
            /\ i <= Len(file'[f].rows)
            /\ file'[f].rows[i].added_date = file[f].rows[i].added_date

C3_OneRowPerIdentity == [](NoTwoRowsSameId) /\ [][RowsKeepTimestamp]_vars

\* the subsequence of s at the indices in idx, in order
RECURSIVE PickFrom(_, _, _)
PickFrom(s, idx, i) ==
    IF i > Len(s) THEN << >>
    ELSE (IF i \in idx THEN <<s[i]>> ELSE << >>) \o PickFrom(s, idx, i + 1)

Pick(s, idx) == PickFrom(s, idx, 1)

\* C4: re-filter at write time.  Neither create_and_save nor
\* update_excel_file appends an item whose identity is in the workbook at the
\* moment of the write.
C4_RefilterAtWrite ==
    /\ \A f \in Files, videos \in MergeBatches :
           LET r == create_and_save(existing_links, file, f, videos, TRUE) IN
           \A i \in (Len(RowsIn(file, f)) + 1)..Len(RowsIn(r.fs, f)) :
               strip(r.fs[f].rows[i].url) \notin KeysIn(file, f)
    /\ \A videos \in EnhBatches :
           LET wb == update_excel_file(master, videos, TRUE).wb IN
           \A i \in (Len(RowsOf(master)) + 1)..Len(RowsOf(wb)) :
               wb.rows[i].video_id \notin IdsIn(master)

RECURSIVE IsSubseq(_, _)
IsSubseq(a, b) ==
    IF a = << >> THEN TRUE
    ELSE IF b = << >> THEN FALSE
    ELSE IF Head(a) = Head(b) THEN IsSubseq(Tail(a), Tail(b))
    ELSE IsSubseq(a, Tail(b))

C7_MissingFileNoKnown ==
    \A f \in Files :
        file[f] = NoFile => load_existing_workbook(existing_links, file, f).links = {}

\* C8: retry after persistence failure.  When create_and_save(V, F) fails
\* because the workbook cannot be saved, a following create_and_save(V, F) on
\* the same manager with working persistence leaves every item of V in F.
C8_RetryAfterFailure ==
    \A f \in Files, videos \in StoreBatches :
        LET r1 == create_and_save(existing_links, file, f, videos, FALSE) IN
        (videos # << >> /\ ~r1.ok) =>
            LET r2 == create_and_save(r1.links, r1.fs, f, videos, TRUE) IN
            KeysOf(videos) \subseteq KeysIn(r2.fs, f)

\* C9: each sequence load_existing_workbook, filter_duplicate_videos, add_data,
\* save_workbook on a file runs alone on that file (the merges are serialized
\* per file), and the file never holds two rows with the same identity.
InMerge(t) == thr[t].pc \in {"filter", "add", "save"}

C9_SerializedMerges ==
    /\ \A t, u \in Threads : InMerge(t) /\ InMerge(u) => t = u
    /\ \A i, j \in 1..Len(RowsIn(file, "f1")) :
          RowsIn(file, "f1")[i].video_id = RowsIn(file, "f1")[j].video_id => i = j

\* C10: with a configured maximum m a scroll loop returns at most m items, and
\* once the snapshots have shown m distinct new items the loop has stopped and
\* its result is exactly the first m of them in discovery order.
TargetReached(pc, m, result, discovered) ==
    /\ pc = "done" => Len(result) <= m
    /\ pc \in {"loop", "done"} /\ Len(discovered) >= m =>
          pc = "done" /\ result = SubSeq(discovered, 1, m)

C10_TargetReached ==
    /\ channel.max_videos > 0 =>
          TargetReached(channel.pc, channel.max_videos, channel.all_videos, found.channel)
    /\ TargetReached(enh.pc, enh.max_links, enh.videos, found.enhanced)

C10_Witness ==
    /\ channel.pc = "done"
    /\ channel.scroll_count > 1
    /\ channel.max_videos > 1
    /\ Len(found.channel) > channel.max_videos

\* C11: in the channel loop a scroll with zero new items adds one to the
\* no-progress counter, a scroll with new items resets it, and the loop stops
\* only when the maximum is reached, the scroll ceiling is reached or the
\* counter has reached 3; otherwise it scrolls again.
C11_StallThreshold ==
    channel.pc = "loop" =>
        \A links \in ChannelPages :
            LET d == extract_videos_by_scrolling(channel, links)
                n == Len(filter_new_videos(extract_videos_from_page(links),
                                           channel.all_videos))
                reached == channel.max_videos # 0
                           /\ Len(channel.all_videos) + n >= channel.max_videos
            IN /\ n = 0 => d.no_new_videos_count = channel.no_new_videos_count + 1
               /\ n > 0 /\ ~reached => d.no_new_videos_count = 0
               /\ d.pc = "done" => \/ reached
                                   \/ d.scroll_count >= max_scrolls
                                   \/ d.no_new_videos_count >= NoNewVideosLimit

\* C12: the channel loop never runs on after 3 consecutive scrolls that
\* revealed no new candidate: it has stopped by then, for lack of progress and
\* below the scroll ceiling.
RECURSIVE TrailingZeros(_)
TrailingZeros(s) ==
    IF s = << >> \/ s[Len(s)] # 0 THEN 0
    ELSE 1 + TrailingZeros(SubSeq(s, 1, Len(s) - 1))

C12_StallTermination ==
    /\ TrailingZeros(found.reveals) <= NoNewVideosLimit
    /\ TrailingZeros(found.reveals) >= NoNewVideosLimit => channel.pc = "done"
    /\ channel.pc = "done" /\ found.channel = << >> =>
          /\ channel.scroll_count <= NoNewVideosLimit
          /\ channel.scroll_count < max_scrolls
          /\ channel.all_videos = << >>

C12_Witness ==
    /\ channel.pc = "done"
    /\ found.channel = << >>
    /\ TrailingZeros(found.reveals) >= 1
    /\ channel.scroll_count = Len(found.reveals)

\* C13: on a source that reveals exactly one new candidate per scroll, with no
\* maximum reached first, the channel loop holds one item per iteration and
\* stops after exactly max_scrolls iterations.
OnePerReveal == \A i \in 1..Len(found.reveals) : found.reveals[i] = 1

NoMaximumFirst == channel.max_videos = 0 \/ channel.max_videos > max_scrolls

C13_CeilingTermination ==
    channel.pc \in {"loop", "done"} /\ OnePerReveal /\ NoMaximumFirst =>
        /\ channel.scroll_count = Len(found.reveals)
        /\ Len(channel.all_videos) = channel.scroll_count
        /\ channel.all_videos = found.channel
        /\ channel.pc = "loop" => channel.scroll_count < max_scrolls
        /\ channel.pc = "done" => channel.scroll_count = max_scrolls

C13_Witness ==
    /\ channel.pc = "done"
    /\ OnePerReveal
    /\ channel.max_videos > max_scrolls
    /\ channel.scroll_count = max_scrolls
    /\ Len(channel.all_videos) = max_scrolls

OnlyKnownHrefs(hrefs) ==
    /\ hrefs # << >>
    /\ \A i \in 1..Len(hrefs) :
          EnhVideo(hrefs[i], "cats", "t1").video_id \in existing_video_ids

OnlyKnownLinks(links) ==
    /\ links # << >>
    /\ \A i \in 1..Len(links) : links[i] \in Range(UrlsOf(channel.all_videos))

C15_KnownNotProgress ==
    /\ enh.pc = "loop" =>
          \A hrefs \in EnhPages, height \in Heights :
              OnlyKnownHrefs(hrefs) =>
                  LET d == scroll_and_extract_videos(enh, existing_video_ids, hrefs, height)
                      e == scroll_and_extract_videos(enh, existing_video_ids, << >>, height)
                  IN /\ d.enh.scroll_attempts = enh.scroll_attempts + 1
                     /\ d = e
    /\ channel.pc = "loop" =>
          \A links \in ChannelPages :
              OnlyKnownLinks(links) =>
                  LET d == extract_videos_by_scrolling(channel, links)
                      e == extract_videos_by_scrolling(channel, << >>)
                  IN /\ d.no_new_videos_count = channel.no_new_videos_count + 1
                     /\ d = e

\* C18: the list find_tiktok_links returns holds no URL twice.
C18_NoRepeatedUrl ==
    \A i, j \in 1..Len(unique_links) : unique_links[i] = unique_links[j] => i = j

C18_Witness ==
    /\ Len(found_links(page_source)) > Len(unique_links)
    /\ Len(unique_links) >= 2

\* C19: the result of find_tiktok_links holds the matches of all patterns, in
\* the order of their first appearance in the concatenation of the matches
\* taken in pattern order; a URL matched by an earlier pattern stands before
\* every URL matched only by later patterns.
FirstAt(s, x) == CHOOSE i \in 1..Len(s) : s[i] = x /\ \A j \in 1..(i - 1) : s[j] # x

\* the first pattern that has x among its matches; m[k] is the set of the
\* matches of pattern k
FirstPattern(m, x) ==
    CHOOSE k \in Patterns : x \in m[k] /\ \A h \in 1..(k - 1) : x \notin m[h]

C19_ExtractionOrder ==
    LET per == [k \in Patterns |-> findall(k, page_source, 1)]
        cat == per[1] \o per[2] \o per[3] \o per[4] \o per[5] \o per[6]
        m   == [k \in Patterns |-> Range(per[k])]
        at  == [i \in 1..Len(unique_links) |-> FirstAt(cat, unique_links[i])]
        by  == [i \in 1..Len(unique_links) |-> FirstPattern(m, unique_links[i])]
    IN /\ Range(unique_links) = Range(cat)
       /\ \A i, j \in 1..Len(unique_links) :
             i < j => at[i] < at[j] /\ by[i] <= by[j]

C19_Witness ==
    /\ page_source = UrlShort2 \o UrlShort1 \o UrlAlice
    /\ unique_links = <<UrlAlice, UrlShort1, UrlShort2>>

\* C20: for a URL https://www.tiktok.com/@<owner>/video/<digits>
\* extract_video_info returns the owner and the digits of the URL.
C20_ResolverRule1 ==
    \A o \in OwnerAtoms, n \in DigitAtoms :
        resolved.url = CanonicalUrl(o, n) =>
            resolved.username = <<o>> /\ resolved.video_id = <<n>>

C20_Witness ==
    /\ resolved.url = CanonicalUrl("a.b-c", "42")
    /\ resolved.username = <<"a.b-c">>

\* C16: when the content source raises during an iteration of a discovery
\* call, the call returns the items accumulated by the iterations before it.
C16_PartialResults ==
    [][/\ enh.pc = "loop" /\ enh'.pc = "raised" => returned'.value = enh.videos
       /\ channel.pc = "loop" /\ found'.errors = found.errors + 1
             => channel'.all_videos = channel.all_videos
       /\ channel.pc = "done" /\ channel'.pc = "returned"
             => returned'.value = channel.all_videos]_vars

\* C17: a discovery call in which the content source failed does not return
\* the value that a successful discovery without items returns, the empty list.
C17_FailuresSurfaced ==
    returned.failed =>
        /\ returned.value # search_tiktok(TRUE, FALSE, << >>, 1)
        /\ returned.value # search_with_login(TRUE, TRUE, FALSE, << >>, 1)
        /\ returned.value # extract_videos_from_page(<< >>)

\* the condition of the elif branch of extract_video_info
IsShortLink(url) ==
    \/ Contains(url, <<"vm.tiktok.com">>)
    \/ \E h \in TiktokHosts : Contains(url, <<h, "/", "t", "/">>)

\* the last non-empty segment of the path of a URL
LastSegment(url) ==
    LET parts == split(url)
        full  == {i \in 1..Len(parts) : parts[i] # EmptyStr}
    IN IF full = {} THEN EmptyStr
       ELSE parts[CHOOSE i \in full : \A j \in full : j <= i]

\* C21: for a short link (host vm.tiktok.com or path tiktok.com/t/), with or
\* without a trailing slash, extract_video_info returns the owner "short_url"
\* and the last non-empty path segment as identity; the identity is not empty
\* and short links with different codes get different identities.
C21_ResolverRule2 ==
    IsShortLink(resolved.url) /\ CanonicalMatches(resolved.url) = {} =>
        /\ resolved.username = <<"short_url">>
        /\ resolved.video_id = LastSegment(resolved.url)
        /\ resolved.video_id # EmptyStr
        /\ \A v \in ResolverUrls :
              /\ IsShortLink(v) /\ CanonicalMatches(v) = {}
              /\ LastSegment(v) # LastSegment(resolved.url)
              => extract_video_info(v).video_id # resolved.video_id

\* C22: for a URL that matches neither the canonical nor the short-link rule
\* extract_video_info returns the owner "unknown" and the whole URL as
\* identity, so two different such URLs never share an identity.
C22_ResolverFallback ==
    [][/\ resolved' # resolved
       /\ ~IsShortLink(resolved'.url) /\ CanonicalMatches(resolved'.url) = {}
       => /\ resolved'.username = <<"unknown">>
          /\ resolved'.video_id = resolved'.url
          /\ \A v \in ResolverUrls :
                /\ ~IsShortLink(v) /\ CanonicalMatches(v) = {}
                /\ v # resolved'.url
                => extract_video_info(v).video_id # resolved'.video_id]_vars

\* the rows that a step appends to file f
Appended(f) ==
    SubSeq(RowsIn(file', f), Len(RowsIn(file, f)) + 1, Len(RowsIn(file', f)))

\* the timestamp a discovery gave to the video with this URL
ObservedAt(url) ==
    {get(returned.value[i], "added_date",
         get(returned.value[i], "extracted_date", "")) :
        i \in {j \in 1..Len(returned.value) : returned.value[j].url = url}}

C24_GuaranteedRelease ==
    returned.call = "search_tiktok" => browser.driver = "quit"

\* C25: when the target file exists and cannot be read, create_and_save
\* returns False and leaves the file with the rows it holds; it does not put
\* a workbook with only the current batch in its place.
C25_UnreadableNotOverwritten ==
    \A f \in Files, saveOk \in BOOLEAN :
        \A videos \in StoreBatches \ {<< >>} :
            IsDamaged(file[f]) =>
                LET r == create_and_save(existing_links, file, f, videos, saveOk)
                IN  ~r.ok /\ r.fs[f] = file[f]

\* C26: when two threads have each run create_and_save on the same file, in
\* whatever order their load, filter, append and save steps were taken, the
\* file holds every identity of both batches.
C26_NoLostUpdate ==
    (\A t \in Threads : thr[t].pc = "done") =>
        \A t \in Threads : KeysOf(thr[t].videos) \subseteq KeysIn(file, "f1")

\* C27: after every iteration of the channel loop the accumulated list holds
\* no two items with the same URL, and the iteration appends no item whose
\* URL the list already held.
C27_SessionUniqueness ==
    [][channel.pc = "loop" =>
          LET old == channel.all_videos
              new == channel'.all_videos
          IN /\ \A i, j \in 1..Len(new) : new[i].url = new[j].url => i = j
             /\ Len(new) >= Len(old) => SubSeq(new, 1, Len(old)) = old
             /\ \A i \in (Len(old) + 1)..Len(new) :
                   new[i].url \notin Range(UrlsOf(old))]_vars

C27_Witness ==
    /\ Len(channel.all_videos) = 2
    /\ found.reveals = <<1, 1>>
    /\ found.repeats = 1

\* C28: in TikTokSearcherEnhanced, after any calls of search_videos and of
\* update_excel_file, failed ones included, every id of existing_video_ids is
\* stored in the master workbook or was in a list returned to the caller.
C28_KnownReflectsPersistence ==
    enh.pc \in {"ready", "returned", "raised"} =>
        existing_video_ids \subseteq IdsIn(master) \cup found.handed

Typed == login'.answers[Len(login'.answers)]

\* a step in which the waiting loop reads one answer
AnswerStep == login.pc = "waiting" /\ Len(login'.answers) > Len(login.answers)

====
